---- MODULE Spec2Model ----
(***************************************************************************)
(* pi-home-dashboard (src/src/main.rs): an axum server with five routes    *)
(* over one shared session table, Arc<Mutex<HashMap<String, UserSession>>>.*)
(*                                                                         *)
(* The model follows the handlers statement by statement.  A worker thread *)
(* of the tokio runtime runs one handler at a time; index and handle_login *)
(* contain no await, so a worker that waits for the std::sync::Mutex stays *)
(* blocked in place.  The mutex is modelled with its two pieces of state:  *)
(* the thread holding it and the poison flag set when a guard is dropped   *)
(* while its thread panics.                                                *)
(***************************************************************************)
EXTENDS Integers, Sequences, FiniteSets, TLC

(***************************************************************************)
(* Bounds of the model.                                                    *)
(***************************************************************************)
\* worker threads of the runtime, each running one request handler at a time
NumWorkers == 2
\* session ids that Uuid::new_v4 can hand out in one run
MaxTokens == 2
\* changes of the system clock in one run
MaxTicks == 2
\* clock resolution: clock units per second (SystemTime is finer than 1 s)
TicksPerSec == 2
\* rows of the SensorData table
MaxRows == 2
\* requests the server accepts in one run
MaxRequests == 3

(***************************************************************************)
(* Program constants.                                                      *)
(***************************************************************************)
SESSION_TIMEOUT_SECS == 300

Workers == 1..NumWorkers
NoTask == 0

\* session_id values: the UUID strings are abstracted to 1..MaxTokens
Tokens == 1..MaxTokens
\* jar.get("session_id") = None
NoCookie == 0
Cookies == Tokens \cup {NoCookie}

\* LoginForm values sent by clients
Usernames == {"admin", "Admin"}
Passwords == {"raspberry", ""}
Forms == [username : Usernames, password : Passwords]
NoForm == [username |-> "", password |-> ""]

Routes == {"GET /", "GET /data", "GET /external-weather", "GET /login", "POST /login"}

\* Option<T>: None is <<>>, Some(v) is <<v>>
None == <<>>
Some(v) == <<v>>
UnwrapOr(opt, d) == IF opt = None THEN d ELSE opt[1]

\* the Weather value of the fallback at the end of external_weather
DefaultWeather == [external_temp |-> 0, external_windspeed |-> 0, external_time |-> "N/A"]

\* no response was produced (the handler has not returned)
NoResp ==
    [body |-> "none", set_cookie |-> NoCookie, sensors |-> <<>>, weather |-> DefaultWeather]

\* a response with body b; c is the session_id the response sets (the
\* cookies added to the returned CookieJar), NoCookie when it sets none
Html(b, c) == [NoResp EXCEPT !.body = b, !.set_cookie = c]

\* what index saw under the lock: the branch taken at sessions.get and elapsed
NoObs == [seen |-> "none", start |-> 0, at |-> 0]

\* what a collaborator answered to a handler: the store to get_data (the
\* failing call or "rows", the table and its rows that do not map to
\* SensorData), the weather API to external_weather (the failing stage or
\* "json", and the three fields of current_weather)
NoIo ==
    [kind |-> "none", rows |-> {}, unreadable |-> {},
     temperature |-> None, windspeed |-> None, time |-> None]

VARIABLES
    now,        \* SystemTime::now(), in clock units since the server started
    ticks,      \* clock changes so far
    accepted,   \* requests accepted so far
    sessions,   \* AppState.sessions: session_id -> UserSession
    nextId,     \* the next session id Uuid::new_v4 returns
    lockHolder, \* the worker holding the sessions mutex, or NoTask
    poisoned,   \* the poison flag of the sessions mutex
    pc,         \* each worker's position in its handler
    req,        \* each worker's request: route, session_id cookie, form
    sid,        \* handle_login's local session_id
    obs,        \* index: what the lookup under the lock saw
    io,         \* get_data, external_weather: what the store or the API answered
    resp        \* each worker's response

vars ==
    <<now, ticks, accepted, sessions, nextId, lockHolder, poisoned, pc, req, sid, obs, io, resp>>

\* a worker with no request in progress: idle, or its last request is over
Free(t) == pc[t] \in {"idle", "done", "panicked"}

\* Duration::as_secs: whole seconds, the fraction dropped
AsSecs(d) == d \div TicksPerSec

\* SystemTime::elapsed: Err when the clock is behind the start time
Elapsed(start) == IF now >= start THEN Some(now - start) ELSE None

\* an insert that starts the table over: only the new entry is left
InsertAlone(m, k, v) == [x \in {k} |-> v]

\* HashMap::insert: adds the key, or replaces the value of a key already there
Insert(m, k, v) == [x \in DOMAIN m \cup {k} |-> IF x = k THEN v ELSE m[x]]

\* a check that compares the username without regard to case
CredentialsOkAnyCase(f) == f.username \in {"admin", "Admin"} /\ f.password = "raspberry"

\* form.username == "admin" && form.password == "raspberry"
CredentialsOk(f) == f.username = "admin" /\ f.password = "raspberry"

Init ==
    /\ now = 0
    /\ ticks = 0
    /\ accepted = 0
    /\ sessions = << >>
    /\ nextId = 1
    /\ lockHolder = NoTask
    /\ poisoned = FALSE
    /\ pc = [t \in Workers |-> "idle"]
    /\ req = [t \in Workers |-> [route |-> "GET /", cookie |-> NoCookie, form |-> NoForm]]
    /\ sid = [t \in Workers |-> NoCookie]
    /\ obs = [t \in Workers |-> NoObs]
    /\ io = [t \in Workers |-> NoIo]
    /\ resp = [t \in Workers |-> NoResp]


(***************************************************************************)
(* The environment: the system clock and the arrival of requests.          *)
(***************************************************************************)
\* amounts by which the clock moves forward: one unit, and one second less
\* and one second more than the timeout
Advances ==
    {1, TicksPerSec * (SESSION_TIMEOUT_SECS - 1), TicksPerSec * (SESSION_TIMEOUT_SECS + 1)}

\* time passes
Tick ==
    /\ ticks < MaxTicks
    /\ \E d \in Advances : now' = now + d
    /\ ticks' = ticks + 1
    /\ UNCHANGED <<accepted, sessions, nextId, lockHolder, poisoned, pc, req, sid, obs, io, resp>>

\* SystemTime is not monotonic: the wall clock is set back
ClockBack ==
    /\ ticks < MaxTicks
    /\ now > 0
    /\ now' = now - 1
    /\ ticks' = ticks + 1
    /\ UNCHANGED <<accepted, sessions, nextId, lockHolder, poisoned, pc, req, sid, obs, io, resp>>

\* the handler's first position, from the Router's table
Entry(route) ==
    CASE route = "GET /" -> "index"
      [] route = "GET /data" -> "get_data"
      [] route = "GET /external-weather" -> "external_weather"
      [] route = "GET /login" -> "show_login"
      [] route = "POST /login" -> "handle_login"

\* logins that passed the credential check and have yet to take their uuid
PendingLogins == {u \in Workers : pc[u] = "handle_login" /\ CredentialsOk(req[u].form)}

\* a request arrives and a free worker takes it
Accept(t) ==
    /\ Free(t)
    /\ accepted < MaxRequests
    /\ accepted' = accepted + 1
    /\ \E r \in Routes, c \in Cookies :
        \E f \in IF r = "POST /login" THEN Forms ELSE {NoForm} :
        /\ CredentialsOk(f) => nextId + Cardinality(PendingLogins) <= MaxTokens
        /\ req' = [req EXCEPT ![t] = [route |-> r, cookie |-> c, form |-> f]]
        /\ pc' = [pc EXCEPT ![t] = Entry(r)]
    /\ sid' = [sid EXCEPT ![t] = NoCookie]
    /\ obs' = [obs EXCEPT ![t] = NoObs]
    /\ io' = [io EXCEPT ![t] = NoIo]
    /\ resp' = [resp EXCEPT ![t] = NoResp]
    /\ UNCHANGED <<now, ticks, sessions, nextId, lockHolder, poisoned>>

(***************************************************************************)
(* The sessions mutex (std::sync::Mutex).                                  *)
(***************************************************************************)
\* a lock that excludes nobody
CanLockAlways == TRUE

\* lock() returns only when no thread holds the mutex
CanLock == lockHolder = NoTask

\* a guard is dropped by a return: the mutex is released as it was
Unlock == lockHolder' = NoTask /\ UNCHANGED poisoned

\* a guard is dropped while its thread unwinds from a panic: the mutex is
\* released and poisoned
UnlockPanicking == lockHolder' = NoTask /\ poisoned' = TRUE

(***************************************************************************)
(* GET / : index, lines 76-92.                                             *)
(***************************************************************************)
\* line 77: jar.get("session_id"); without the cookie, line 91
IndexCookie(t) ==
    /\ pc[t] = "index"
    /\ IF req[t].cookie = NoCookie
         THEN /\ resp' = [resp EXCEPT ![t] = Html("not_logged_in", NoCookie)]
              /\ pc' = [pc EXCEPT ![t] = "done"]
         ELSE /\ pc' = [pc EXCEPT ![t] = "index_lock"]
              /\ UNCHANGED resp
    /\ UNCHANGED <<now, ticks, accepted, sessions, nextId, lockHolder, poisoned, req, sid, obs, io>>

\* line 78: let sessions = state.sessions.lock().unwrap();
\* on a poisoned mutex lock() is Err and unwrap panics, dropping the guard
\* the error carries
IndexLock(t) ==
    /\ pc[t] = "index_lock"
    /\ CanLock
    /\ IF poisoned
         THEN /\ pc' = [pc EXCEPT ![t] = "panicked"]
              /\ UNCHANGED lockHolder
         ELSE /\ pc' = [pc EXCEPT ![t] = "index_get"]
              /\ lockHolder' = t
    /\ UNCHANGED <<now, ticks, accepted, sessions, nextId, poisoned, req, sid, obs, resp, io>>

\* the branch of lines 79-80 for the entry e found at time now
Expired(e) == AsSecs(Elapsed(e.session_start)[1]) > SESSION_TIMEOUT_SECS

\* lines 79-80: sessions.get(session_id.value()) and the elapsed test, with
\* the guard of line 78 alive
IndexGet(t) ==
    /\ pc[t] = "index_get"
    /\ LET k == req[t].cookie IN
       IF k \notin DOMAIN sessions
         THEN \* no entry: the guard is dropped at line 89, then line 91
              /\ obs' = [obs EXCEPT ![t] = [seen |-> "missing", start |-> 0, at |-> now]]
              /\ resp' = [resp EXCEPT ![t] = Html("not_logged_in", NoCookie)]
              /\ pc' = [pc EXCEPT ![t] = "done"]
              /\ Unlock
         ELSE LET e == sessions[k] IN
              IF Elapsed(e.session_start) = None
                THEN \* elapsed() is Err: unwrap panics with the guard alive
                     /\ obs' = [obs EXCEPT ![t] =
                                  [seen |-> "clock_error", start |-> e.session_start, at |-> now]]
                     /\ pc' = [pc EXCEPT ![t] = "panicked"]
                     /\ UnlockPanicking
                     /\ UNCHANGED resp
                ELSE /\ obs' = [obs EXCEPT ![t] =
                                  [seen |-> IF Expired(e) THEN "expired" ELSE "active",
                                   start |-> e.session_start, at |-> now]]
                     /\ pc' = [pc EXCEPT ![t] =
                                  IF Expired(e) THEN "index_relock" ELSE "index_read"]
                     /\ UNCHANGED <<lockHolder, poisoned, resp>>
    /\ UNCHANGED <<now, ticks, accepted, sessions, nextId, req, sid, io>>

\* line 81: state.sessions.lock() a second time on the thread that holds the
\* guard of line 78.  std::sync::Mutex leaves this unspecified but for one
\* thing: the call does not return.  It deadlocks, or it panics; lines 81's
\* remove and line 82's return are never executed.
IndexRelock(t) ==
    /\ pc[t] = "index_relock"
    /\ \/ \* the thread waits for itself, holding the mutex
          /\ pc' = [pc EXCEPT ![t] = "deadlocked"]
          /\ UNCHANGED <<lockHolder, poisoned>>
       \/ \* the call panics: the guard of line 78 is dropped in the unwinding
          /\ pc' = [pc EXCEPT ![t] = "panicked"]
          /\ UnlockPanicking
    /\ UNCHANGED <<now, ticks, accepted, sessions, nextId, req, sid, obs, resp, io>>

\* a sliding expiry: the dashboard branch restarts the session's clock
IndexReadSliding(t) ==
    /\ pc[t] = "index_read"
    /\ sessions' = [sessions EXCEPT ![req[t].cookie].session_start = now]
    /\ resp' = [resp EXCEPT ![t] = Html("dashboard", NoCookie)]
    /\ pc' = [pc EXCEPT ![t] = "done"]
    /\ Unlock
    /\ UNCHANGED <<now, ticks, accepted, nextId, req, sid, obs, io>>

\* lines 84-86: std::fs::read_to_string(index.html).unwrap(), with the guard
\* of line 78 alive; the file is there or not
IndexRead(t) ==
    /\ pc[t] = "index_read"
    /\ \/ \* Ok(html): return Html(html), the guard is dropped
          /\ resp' = [resp EXCEPT ![t] = Html("dashboard", NoCookie)]
          /\ pc' = [pc EXCEPT ![t] = "done"]
          /\ Unlock
       \/ \* Err: unwrap panics with the guard alive
          /\ pc' = [pc EXCEPT ![t] = "panicked"]
          /\ UnlockPanicking
          /\ UNCHANGED resp
    /\ UNCHANGED <<now, ticks, accepted, sessions, nextId, req, sid, obs, io>>

(***************************************************************************)
(* POST /login : handle_login, lines 156-182.                              *)
(***************************************************************************)
\* Uuid::new_v4(): 122 random bits.  The model takes the draw to be a value
\* never drawn before (no collision), as a counter.
NewV4 == nextId

\* line 162, the credential check; then line 163, or lines 179-180
LoginCheck(t) ==
    /\ pc[t] = "handle_login"
    /\ IF CredentialsOk(req[t].form)
         THEN /\ sid' = [sid EXCEPT ![t] = NewV4]
              /\ nextId' = nextId + 1
              /\ pc' = [pc EXCEPT ![t] = "login_insert"]
              /\ UNCHANGED resp
         ELSE \* (jar, Redirect::to("/login")): the jar as it came, nothing added
              /\ resp' = [resp EXCEPT ![t] = Html("redirect_login", NoCookie)]
              /\ pc' = [pc EXCEPT ![t] = "done"]
              /\ UNCHANGED <<sid, nextId>>
    /\ UNCHANGED <<now, ticks, accepted, sessions, lockHolder, poisoned, req, obs, io>>

\* a login that sweeps the table: the entries past the timeout are dropped
\* before the new one is inserted
LoginInsertSweeping(t) ==
    /\ pc[t] = "login_insert"
    /\ CanLock
    /\ ~poisoned
    /\ LET live == {k \in DOMAIN sessions :
                      \/ Elapsed(sessions[k].session_start) = None
                      \/ ~Expired(sessions[k])}
       IN sessions' = Insert([k \in live |-> sessions[k]], sid[t],
                             [username |-> req[t].form.username, session_start |-> now])
    /\ resp' = [resp EXCEPT ![t] = Html("redirect_root", sid[t])]
    /\ pc' = [pc EXCEPT ![t] = "done"]
    /\ UNCHANGED <<now, ticks, accepted, nextId, lockHolder, poisoned, req, sid, obs, io>>

\* lines 165-178: state.sessions.lock().unwrap().insert(..), the guard a
\* temporary dropped at the end of the statement; then the cookie and the
\* redirect.  On a poisoned mutex unwrap panics.
LoginInsert(t) ==
    /\ pc[t] = "login_insert"
    /\ CanLock
    /\ IF poisoned
         THEN /\ pc' = [pc EXCEPT ![t] = "panicked"]
              /\ UNCHANGED <<sessions, resp>>
         ELSE /\ sessions' = Insert(sessions, sid[t],
                                [username |-> req[t].form.username, session_start |-> now])
              /\ resp' = [resp EXCEPT ![t] = Html("redirect_root", sid[t])]
              /\ pc' = [pc EXCEPT ![t] = "done"]
    /\ UNCHANGED <<now, ticks, accepted, nextId, lockHolder, poisoned, req, sid, obs, io>>

(***************************************************************************)
(* GET /login : show_login, lines 149-154.                                 *)
(***************************************************************************)
\* read_to_string(login.html).await.unwrap_or_else(fallback)
ShowLogin(t) ==
    /\ pc[t] = "show_login"
    /\ \E found \in BOOLEAN :
         resp' = [resp EXCEPT ![t] =
                    Html(IF found THEN "login_page" ELSE "login_page_missing", NoCookie)]
    /\ pc' = [pc EXCEPT ![t] = "done"]
    /\ UNCHANGED <<now, ticks, accepted, sessions, nextId, lockHolder, poisoned, req, sid, obs, io>>

(***************************************************************************)
(* GET /data : get_data, lines 94-120.                                     *)
(***************************************************************************)
\* the timestamps of a set, newest first (ORDER BY timestamp DESC)
RECURSIVE Descending(_)
Descending(S) ==
    IF S = {} THEN <<>>
    ELSE LET m == CHOOSE x \in S : \A y \in S : y <= x
         IN <<m>> \o Descending(S \ {m})

\* lines 96-119: the rows pushed to sensors.  prepared and queried are the
\* results of conn.prepare and stmt.query_map; rows is the table, unreadable
\* the rows whose mapping to SensorData is Err
Sensors(prepared, queried, rows, unreadable) ==
    IF prepared /\ queried THEN Descending(rows \ unreadable) ELSE <<>>

\* what the store can answer: Connection::open fails, conn.prepare fails,
\* stmt.query_map fails, or the query runs over a table of which some rows
\* do not map to SensorData
Database ==
    [kind : {"open_failed", "prepare_failed", "query_failed"},
     rows : {1..MaxRows}, unreadable : {{}}]
    \cup {d \in [kind : {"rows"}, rows : SUBSET (1..MaxRows),
                  unreadable : SUBSET (1..MaxRows)] : d.unreadable \subseteq d.rows}

\* the answer d of the store, as the handler's io
StoreIo(d) == [NoIo EXCEPT !.kind = d.kind, !.rows = d.rows, !.unreadable = d.unreadable]

\* a sensor reader behind the login: it looks the cookie up under the lock
GetDataLoggedIn(t) ==
    /\ pc[t] = "get_data"
    /\ CanLock
    /\ \E d \in Database :
        /\ io' = [io EXCEPT ![t] = StoreIo(d)]
        /\ IF d.kind = "open_failed"
             THEN /\ pc' = [pc EXCEPT ![t] = "panicked"]
                  /\ UNCHANGED resp
             ELSE /\ resp' = [resp EXCEPT ![t] =
                                [NoResp EXCEPT
                                   !.body = "json_sensors",
                                   !.sensors = IF req[t].cookie \in DOMAIN sessions
                                                 THEN Sensors(d.kind # "prepare_failed",
                                                              d.kind # "query_failed",
                                                              d.rows, d.unreadable)
                                                 ELSE <<>>]]
                  /\ pc' = [pc EXCEPT ![t] = "done"]
    /\ UNCHANGED <<now, ticks, accepted, sessions, nextId, lockHolder, poisoned, req, sid, obs>>

\* line 95, Connection::open(DB_FILE).unwrap(), then lines 96-119
GetData(t) ==
    /\ pc[t] = "get_data"
    /\ \E d \in Database :
        /\ io' = [io EXCEPT ![t] = StoreIo(d)]
        /\ IF d.kind = "open_failed"
             THEN \* the database cannot be opened: unwrap panics
                  /\ pc' = [pc EXCEPT ![t] = "panicked"]
                  /\ UNCHANGED resp
             ELSE /\ resp' = [resp EXCEPT ![t] =
                                [NoResp EXCEPT
                                   !.body = "json_sensors",
                                   !.sensors = Sensors(d.kind # "prepare_failed",
                                                       d.kind # "query_failed",
                                                       d.rows, d.unreadable)]]
                  /\ pc' = [pc EXCEPT ![t] = "done"]
    /\ UNCHANGED <<now, ticks, accepted, sessions, nextId, lockHolder, poisoned, req, sid, obs>>

(***************************************************************************)
(* GET /external-weather : external_weather, lines 122-147.                *)
(***************************************************************************)
\* what reqwest::get(url) and response.json() can give: a transport error, a
\* status that is not a success, a body that is not JSON, or a JSON value
\* whose current_weather has each field or lacks it
Temperatures == {None, Some(21)}
Windspeeds == {None, Some(7)}
Times == {None, Some("2024-01-01T12:00")}
Upstream ==
    [kind : {"network_error", "not_json"},
     temperature : {None}, windspeed : {None}, time : {None}]
    \cup [kind : {"http_error"}, temperature : Temperatures \ {None},
          windspeed : Windspeeds \ {None}, time : Times \ {None}]
    \cup [kind : {"json"}, temperature : Temperatures, windspeed : Windspeeds, time : Times]

\* the answer u of the API, as the handler's io
ApiIo(u) ==
    [NoIo EXCEPT !.kind = u.kind, !.temperature = u.temperature,
                 !.windspeed = u.windspeed, !.time = u.time]

\* a proxy that does not look at the status: any body with the fields is used
WeatherOfAnyStatus(u) ==
    IF u.kind \in {"json", "http_error"}
      THEN [external_temp |-> UnwrapOr(u.temperature, 0),
            external_windspeed |-> UnwrapOr(u.windspeed, 0),
            external_time |-> UnwrapOr(u.time, "N/A")]
      ELSE DefaultWeather

\* a proxy that gives the whole fallback as soon as one field is missing
WeatherOfAllOrNothing(u) ==
    IF u.kind = "json" /\ None \notin {u.temperature, u.windspeed, u.time}
      THEN [external_temp |-> u.temperature[1],
            external_windspeed |-> u.windspeed[1],
            external_time |-> u.time[1]]
      ELSE DefaultWeather

\* lines 126-146
WeatherOf(u) ==
    IF u.kind = "json"
      THEN [external_temp |-> UnwrapOr(u.temperature, 0),
            external_windspeed |-> UnwrapOr(u.windspeed, 0),
            external_time |-> UnwrapOr(u.time, "N/A")]
      ELSE DefaultWeather

ExternalWeather(t) ==
    /\ pc[t] = "external_weather"
    /\ \E u \in Upstream :
        /\ io' = [io EXCEPT ![t] = ApiIo(u)]
        /\ resp' = [resp EXCEPT ![t] =
                      [NoResp EXCEPT !.body = "json_weather", !.weather = WeatherOf(u)]]
    /\ pc' = [pc EXCEPT ![t] = "done"]
    /\ UNCHANGED <<now, ticks, accepted, sessions, nextId, lockHolder, poisoned, req, sid, obs>>

(***************************************************************************)
(* The server.                                                             *)
(***************************************************************************)
Next ==
    \/ Tick
    \/ ClockBack
    \/ \E t \in Workers :
        \/ Accept(t)
        \/ IndexCookie(t)
        \/ IndexLock(t)
        \/ IndexGet(t)
        \/ IndexRelock(t)
        \/ IndexRead(t)
        \/ LoginCheck(t)
        \/ LoginInsert(t)
        \/ ShowLogin(t)
        \/ GetData(t)
        \/ ExternalWeather(t)

Spec == Init /\ [][Next]_vars

TypeOK ==
    /\ now \in Nat
    /\ ticks \in 0..MaxTicks
    /\ accepted \in 0..MaxRequests
    /\ DOMAIN sessions \subseteq Tokens
    /\ nextId \in 1..(MaxTokens + 1)
    /\ lockHolder \in Workers \cup {NoTask}
    /\ poisoned \in BOOLEAN

(***************************************************************************)
(* Vocabulary of the properties.                                           *)
(***************************************************************************)
\* the request of worker t is over: answered, aborted by a panic, or stuck
\* for good
Over(t) == pc[t] \in {"done", "panicked", "deadlocked"}

\* worker t serves, or served last, a GET /
IsIndex(t) == pc[t] # "idle" /\ req[t].route = "GET /"

\* worker t serves, or served last, a POST /login
IsLogin(t) == pc[t] # "idle" /\ req[t].route = "POST /login"

\* the three bodies of GET /
IndexBodies == {"dashboard", "expired", "not_logged_in"}

\* the lookup of worker t found its entry, the clock read t seconds after
\* the creation or later
ElapsedAtLeast(t, secs) ==
    /\ obs[t].seen \in {"active", "expired"}
    /\ obs[t].at - obs[t].start >= TicksPerSec * secs

\* ... or t seconds after the creation or earlier
ElapsedAtMost(t, secs) ==
    /\ obs[t].seen \in {"active", "expired"}
    /\ obs[t].at - obs[t].start <= TicksPerSec * secs

(***************************************************************************)
(* C1: a GET / whose cookie names an entry older than the timeout returns  *)
(* the expiry notice and removes the entry, and no second GET / finds the  *)
(* same entry expired again.                                               *)
(***************************************************************************)
C1_ExpiredOnceThenRemoved ==
    /\ \A t \in Workers :
         (IsIndex(t) /\ Over(t) /\ ElapsedAtLeast(t, SESSION_TIMEOUT_SECS + 1)) =>
             /\ resp[t].body = "expired"
             /\ req[t].cookie \notin DOMAIN sessions
    /\ \A t, u \in Workers :
         (t # u /\ obs[t].seen = "expired" /\ obs[u].seen = "expired") =>
             req[t].cookie # req[u].cookie

(***************************************************************************)
(* C2: a GET / that reads the clock up to TIMEOUT - 1 seconds after the    *)
(* creation of its session returns the dashboard; one that reads it        *)
(* TIMEOUT + 1 seconds after or later returns the expiry notice.           *)
(***************************************************************************)
C2_ActiveThenExpired ==
    \A t \in Workers :
        (IsIndex(t) /\ Over(t)) =>
            /\ ElapsedAtMost(t, SESSION_TIMEOUT_SECS - 1) => resp[t].body = "dashboard"
            /\ ElapsedAtLeast(t, SESSION_TIMEOUT_SECS + 1) => resp[t].body = "expired"

(***************************************************************************)
(* C3: no GET / ends without one of the three bodies, and none waits for   *)
(* the lock it holds.                                                      *)
(***************************************************************************)
C3_IndexAlwaysAnswers ==
    \A t \in Workers :
        IsIndex(t) =>
            /\ pc[t] # "deadlocked"
            /\ Over(t) => resp[t].body \in IndexBodies

(***************************************************************************)
(* C4: the sessions lock is never left poisoned, nor held by a worker that *)
(* will not release it.                                                    *)
(***************************************************************************)
C4_LockStaysUsable ==
    /\ ~poisoned
    /\ \A t \in Workers : ~(pc[t] = "deadlocked" /\ lockHolder = t)

(***************************************************************************)
(* C5: no worker holds the sessions lock while it reads the template file. *)
(***************************************************************************)
C5_NoLockAcrossIO ==
    \A t \in Workers : pc[t] = "index_read" => lockHolder # t

(***************************************************************************)
(* C6: from the expiry check of a GET / to the end of its critical section *)
(* no other worker is inside the lock, looks the table up or changes it;   *)
(* and a worker that is past lock() at line 78 is the holder of the lock.  *)
(***************************************************************************)
\* positions of index between lock() at line 78 and the drop of its guard
InCriticalSection(t) == pc[t] \in {"index_get", "index_relock", "index_read", "deadlocked"}

\* worker t found its entry expired and its guard is still alive
AfterExpiryCheck(t) == pc[t] \in {"index_relock", "deadlocked"}

C6_CheckThenRemoveAtomic ==
    /\ [](\A t \in Workers : InCriticalSection(t) => lockHolder = t)
    /\ [][\A t \in Workers :
            AfterExpiryCheck(t) =>
                /\ sessions' = sessions
                /\ lockHolder' \in {t, NoTask}
                /\ \A u \in Workers \ {t} : obs'[u] = obs[u] \/ obs'[u] = NoObs]_vars

\* a worker has found its entry expired while another waits for the lock:
\* a GET / with the same cookie, or a login about to insert
C6_Witness ==
    \E t, u \in Workers :
        /\ pc[t] = "index_relock"
        /\ obs[t].seen = "expired"
        /\ \/ pc[u] = "index_lock" /\ req[u].cookie = req[t].cookie
           \/ pc[u] = "login_insert"

(***************************************************************************)
(* C7: no step changes the username or the session_start of an entry of    *)
(* the session table that it leaves in the table.                          *)
(***************************************************************************)
C7_AbsoluteTimeout ==
    [][\A k \in DOMAIN sessions :
          k \in DOMAIN sessions' => sessions'[k] = sessions[k]]_vars

\* two GET / with the same cookie were answered with the dashboard at
\* different times after the creation, and the entry is as it was created
C7_Witness ==
    \E t, u \in Workers :
        /\ t # u
        /\ IsIndex(t) /\ IsIndex(u)
        /\ req[t].cookie = req[u].cookie
        /\ resp[t].body = "dashboard" /\ resp[u].body = "dashboard"
        /\ obs[t].at < obs[u].at
        /\ obs[t].start < obs[t].at
        /\ req[t].cookie \in DOMAIN sessions
        /\ sessions[req[t].cookie].session_start = obs[t].start

(***************************************************************************)
(* C8: a GET / without the cookie, or with a token that no login was ever  *)
(* given, ends with the not-logged-in notice.                              *)
(***************************************************************************)
\* Uuid::new_v4 has not returned k so far
NeverIssued(k) == k >= nextId

C8_UnknownTokenNotLoggedIn ==
    \A t \in Workers :
        (IsIndex(t) /\ Over(t) /\ (req[t].cookie = NoCookie \/ NeverIssued(req[t].cookie))) =>
            resp[t].body = "not_logged_in"

(***************************************************************************)
(* C10: a POST /login with admin/raspberry ends with its session in the    *)
(* table, the session_id cookie set to the new token and a redirect to /;  *)
(* a GET / that then finds this session inside the window returns the      *)
(* dashboard.                                                              *)
(***************************************************************************)
C10_LoginThenDashboard ==
    /\ \A t \in Workers :
         (IsLogin(t) /\ Over(t) /\ CredentialsOk(req[t].form)) =>
             /\ resp[t].body = "redirect_root"
             /\ resp[t].set_cookie = sid[t]
             /\ sid[t] \in DOMAIN sessions
             /\ sessions[sid[t]].username = req[t].form.username
    /\ \A t \in Workers :
         (IsIndex(t) /\ Over(t) /\ ElapsedAtMost(t, SESSION_TIMEOUT_SECS - 1)) =>
             resp[t].body = "dashboard"

(***************************************************************************)
(* C11: a POST /login whose form is not exactly admin/raspberry is         *)
(* answered at the credential check with a redirect to /login that sets no *)
(* cookie, and the step leaves the session table as it was; such a login   *)
(* never ends otherwise.                                                   *)
(***************************************************************************)
\* the exact configured pair, written out
ConfiguredPair(f) == f = [username |-> "admin", password |-> "raspberry"]

C11_BadCredentialsNoSession ==
    /\ [](\A t \in Workers :
            (IsLogin(t) /\ ~ConfiguredPair(req[t].form)) =>
                /\ pc[t] \in {"handle_login", "done"}
                /\ pc[t] = "done" =>
                     /\ resp[t].body = "redirect_login"
                     /\ resp[t].set_cookie = NoCookie)
    /\ [][\A t \in Workers :
            (IsLogin(t) /\ ~ConfiguredPair(req[t].form) /\ pc'[t] # pc[t]) =>
                /\ sessions' = sessions
                /\ nextId' = nextId
                /\ lockHolder' = lockHolder]_vars

\* logins with a case variant and with an empty string were turned away while
\* the table held a session, one of them carrying that session's cookie
C11_Witness ==
    \E t, u \in Workers :
        /\ t # u
        /\ IsLogin(t) /\ pc[t] = "done"
        /\ req[t].form = [username |-> "Admin", password |-> "raspberry"]
        /\ req[t].cookie \in DOMAIN sessions
        /\ resp[t].body = "redirect_login"
        /\ IsLogin(u) /\ pc[u] = "done"
        /\ req[u].form = [username |-> "admin", password |-> ""]
        /\ resp[u].body = "redirect_login"

(***************************************************************************)
(* C12: a step that takes an entry out of the session table is a step of a *)
(* GET / that holds the lock, carries that entry's token and found it past *)
(* the timeout; no other step removes an entry, expired or not.            *)
(***************************************************************************)
C12_PassiveExpiry ==
    [][\A k \in DOMAIN sessions :
          k \notin DOMAIN sessions' =>
              \E t \in Workers :
                  /\ IsIndex(t)
                  /\ req[t].cookie = k
                  /\ obs[t].seen = "expired"
                  /\ lockHolder = t
                  /\ pc'[t] # pc[t]]_vars

\* an entry past the timeout is still in the table after a later login
\* inserted its own session and after a GET / for that other token
C12_Witness ==
    \E k, j \in DOMAIN sessions :
        /\ sessions[j].session_start - sessions[k].session_start
               >= TicksPerSec * (SESSION_TIMEOUT_SECS + 1)
        /\ Elapsed(sessions[k].session_start) # None
        /\ Expired(sessions[k])
        /\ \E t \in Workers :
             /\ IsIndex(t) /\ pc[t] = "done"
             /\ req[t].cookie = j
             /\ resp[t].body = "dashboard"

(***************************************************************************)
(* C13: a missing template does not fail the request: GET /login always    *)
(* ends with the login page or its fallback message, and a GET / that      *)
(* found its session inside the window always ends with a body, the mutex  *)
(* left usable.                                                            *)
(***************************************************************************)
C13_MissingTemplateFallback ==
    \A t \in Workers :
        /\ (pc[t] # "idle" /\ req[t].route = "GET /login" /\ Over(t)) =>
               /\ pc[t] = "done"
               /\ resp[t].body \in {"login_page", "login_page_missing"}
        /\ (IsIndex(t) /\ obs[t].seen = "active" /\ Over(t)) =>
               /\ pc[t] = "done"
               /\ resp[t].body # "none"

(***************************************************************************)
(* C14: GET /data never ends without a response, and its response is the   *)
(* empty sequence whenever the store cannot be opened, the query cannot be *)
(* prepared or run, or the table has no rows.                              *)
(***************************************************************************)
C14_SensorReaderDegrades ==
    \A t \in Workers :
        (pc[t] # "idle" /\ req[t].route = "GET /data" /\ Over(t)) =>
            /\ pc[t] = "done"
            /\ resp[t].body = "json_sensors"
            /\ (io[t].kind \in {"open_failed", "prepare_failed", "query_failed"}
                  \/ io[t].rows = {}) => resp[t].sensors = <<>>

(***************************************************************************)
(* C15: GET /external-weather always ends with a response, and when the    *)
(* call fails with a transport error, a status that is not a success or a  *)
(* body that is not JSON, the response is the all-default snapshot.        *)
(***************************************************************************)
IsWeather(t) == pc[t] # "idle" /\ req[t].route = "GET /external-weather"

C15_WeatherFailureDefaults ==
    \A t \in Workers :
        (IsWeather(t) /\ Over(t)) =>
            /\ pc[t] = "done"
            /\ resp[t].body = "json_weather"
            /\ io[t].kind \in {"network_error", "http_error", "not_json"} =>
                 resp[t].weather =
                     [external_temp |-> 0, external_windspeed |-> 0, external_time |-> "N/A"]

\* each of the three failures was answered, the error status one with a body
\* that holds the three fields
C15_Witness ==
    \E t, u \in Workers :
        /\ IsWeather(t) /\ pc[t] = "done"
        /\ io[t].kind = "http_error" /\ io[t].temperature # None
        /\ IsWeather(u) /\ pc[u] = "done"
        /\ io[u].kind \in {"network_error", "not_json"}

(***************************************************************************)
(* C16, as claimed: on a JSON answer with a success status that lacks one  *)
(* of the three fields, the response is the whole default snapshot.        *)
(***************************************************************************)
C16_MissingFieldWholeDefault ==
    \A t \in Workers :
        (IsWeather(t) /\ pc[t] = "done" /\ io[t].kind = "json"
           /\ None \in {io[t].temperature, io[t].windspeed, io[t].time}) =>
            resp[t].weather = DefaultWeather

(***************************************************************************)
(* C16, amended: on a JSON answer with a success status each field of the  *)
(* response is the field of current_weather when it is there, and that     *)
(* field's own default (0.0, 0.0, "N/A") when it is missing.               *)
(***************************************************************************)
C16_MissingFieldOwnDefault ==
    \A t \in Workers :
        (IsWeather(t) /\ pc[t] = "done" /\ io[t].kind = "json") =>
            /\ resp[t].weather.external_temp =
                 (IF io[t].temperature = None THEN 0 ELSE io[t].temperature[1])
            /\ resp[t].weather.external_windspeed =
                 (IF io[t].windspeed = None THEN 0 ELSE io[t].windspeed[1])
            /\ resp[t].weather.external_time =
                 (IF io[t].time = None THEN "N/A" ELSE io[t].time[1])

\* a JSON answer without windspeed was answered with its temperature and time
C16_Witness ==
    \E t \in Workers :
        /\ IsWeather(t) /\ pc[t] = "done" /\ io[t].kind = "json"
        /\ io[t].windspeed = None /\ io[t].temperature # None /\ io[t].time # None
        /\ resp[t].weather.external_temp = io[t].temperature[1]
        /\ resp[t].weather.external_windspeed = 0
        /\ resp[t].weather # DefaultWeather

(***************************************************************************)
(* C17: GET /data and GET /external-weather never hold the session lock,   *)
(* their step can be taken whatever the state of the lock, it leaves the   *)
(* session table and the lock as they were, and two requests of the same   *)
(* route that met the same database or upstream answer end the same way    *)
(* whatever cookie each carried.                                           *)
(***************************************************************************)
IsData(t) ==
    pc[t] # "idle" /\ req[t].route \in {"GET /data", "GET /external-weather"}

C17_DataRoutesSessionFree ==
    /\ [](\A t \in Workers :
            /\ IsData(t) => lockHolder # t
            /\ pc[t] = "get_data" => ENABLED GetData(t)
            /\ pc[t] = "external_weather" => ENABLED ExternalWeather(t))
    /\ [](\A t, u \in Workers :
            (/\ IsData(t) /\ Over(t)
             /\ IsData(u) /\ Over(u)
             /\ req[t].route = req[u].route
             /\ io[t] = io[u]) => (pc[t] = pc[u] /\ resp[t] = resp[u]))
    /\ [][\A t \in Workers :
            (pc[t] \in {"get_data", "external_weather"} /\ pc'[t] # pc[t]) =>
                UNCHANGED <<sessions, lockHolder, poisoned>>]_vars

\* the same rows were returned to a request with the cookie of a session in
\* the table and to a request with a token that is not in the table
C17_Witness ==
    \E t, u \in Workers :
        /\ req[t].route = "GET /data" /\ pc[t] = "done"
        /\ req[u].route = "GET /data" /\ pc[u] = "done"
        /\ req[t].cookie \in DOMAIN sessions
        /\ req[u].cookie \notin DOMAIN sessions
        /\ io[t].kind = "rows" /\ io[t] = io[u]
        /\ resp[t].sensors # <<>>
        /\ resp[t] = resp[u]

(***************************************************************************)
(* C18: the step that ends a POST /login with admin/raspberry adds the new *)
(* token, which was not a key before, with the form's username and the     *)
(* time of the step, and keeps every entry that was there, whatever cookie *)
(* the request carried; an entry that stays in the table never changes.    *)
(***************************************************************************)
C18_LoginAddsOneEntry ==
    /\ [][\A t \in Workers :
            (pc[t] = "login_insert" /\ pc'[t] = "done") =>
                /\ sid[t] \notin DOMAIN sessions
                /\ DOMAIN sessions' = DOMAIN sessions \cup {sid[t]}
                /\ \A k \in DOMAIN sessions : sessions'[k] = sessions[k]
                /\ sessions'[sid[t]] =
                     [username |-> req[t].form.username, session_start |-> now]]_vars
    /\ [][\A k \in DOMAIN sessions \cap DOMAIN sessions' :
            sessions'[k] = sessions[k]]_vars

\* a second login of admin, sent with the cookie of the first session, has
\* ended and both sessions are inside the window, each with its own start
C18_Witness ==
    \E t \in Workers :
        /\ IsLogin(t) /\ pc[t] = "done"
        /\ sid[t] \in DOMAIN sessions
        /\ req[t].cookie \in DOMAIN sessions \ {sid[t]}
        /\ sessions[req[t].cookie].username = sessions[sid[t]].username
        /\ sessions[req[t].cookie].session_start < sessions[sid[t]].session_start
        /\ Elapsed(sessions[req[t].cookie].session_start) # None
        /\ ~Expired(sessions[req[t].cookie])
        /\ ~Expired(sessions[sid[t]])

====
